---- MODULE Spec2Model ----
(***************************************************************************)
(* Region conflict resolution of the Docling layout post-processing         *)
(* (src/src/process_bboxes.py): overlap detection, grouping of overlapping  *)
(* bounding boxes and greedy removal inside every group.                    *)
(*                                                                          *)
(* Box coordinates are integers in hundredths of a pixel (Region rounds     *)
(* them to two decimals), scores are integers in hundredths.  Region        *)
(* indexes are the 0-based list indexes of the Python code; the region with *)
(* index i is results[i + 1].                                               *)
(***************************************************************************)
EXTENDS Integers, Sequences, FiniteSets, TLC

VARIABLES
    input,                  \* the region list the first call was constructed with
    results,                \* PostProcessingBBoxes.results
    overlaps,               \* list of index pairs returned by _find_overlaps
    overlapping_bboxes_set, \* set returned by _convert_overlaps_to_set
    groups,                 \* list of index sets returned by _group_overlaps
    remove_indexes,         \* accumulator of _get_removing_indexes
    group_index,            \* number of groups _get_removing_indexes has taken
    group,                  \* working group of the running _process_group
    removed,                \* removed set of the running _process_group
    selected,               \* every max_score index chosen so far in this run
    rounds,                 \* iterations of the while loop in the running _process_group
    new_regions,            \* list returned by get_list_of_regions
    run,                    \* 1 for the first call, 2 for the call on its output
    pc,                     \* position inside get_list_of_regions and process_page
    page_number,            \* page_number argument of the running process_page
    dev_rects,              \* the rect handed to RectToPage, one per region of the loop
    built,                  \* the element dict the loop built, one per region of the loop
    elements,               \* list returned by _create_json_for_elements
    template_json_pages,    \* TemplateJsonCreator.template_json_pages
    calls,                  \* arguments of the process_page calls that returned
    command,                \* subcommand chosen on the command line
    zoom,                   \* --zoom, in hundredths, or NaN
    input_path,             \* --input, as a list of characters
    output_path,            \* --output, as a list of characters
    main_pc,                \* position inside main, the subcommand and process_file
    update_thread,          \* state of the update-check thread
    joined,                 \* update_thread.join() has returned
    exc,                    \* the exception that is propagating, "none" if none
    exit_code,              \* code the process exits with, "none" before
    num_pages,              \* doc.GetNumPages()
    page_index,             \* loop variable of process_file
    trace                   \* calls made on the SDK objects so far, with their outcome

pagevars == <<page_number, dev_rects, built, elements, template_json_pages, calls>>

mainvars == <<command, zoom, input_path, output_path, main_pc, update_thread, joined, exc,
              exit_code, num_pages, page_index, trace>>

vars == <<input, results, overlaps, overlapping_bboxes_set, groups, remove_indexes,
          group_index, group, removed, selected, rounds, new_regions, run, pc, pagevars,
          mainvars>>

----------------------------------------------------------------------------
(* Bounds of the model *)

MaxRegions == 3
GridSteps == 2
MaxPermuted == 3
MaxRuns == 2

----------------------------------------------------------------------------
(* Inputs *)

Px(n) == n * 100

Reg(box, label, score) == [box |-> box, label |-> label, score |-> score]

Scores == {60, 80, 90}

\* Boxes that touch at an edge, touch at a corner, intersect properly, are
\* separated by a gap, and one box far away from all the others.
RegionPool ==
    UNION { { Reg(<<Px(0), Px(0), Px(10), Px(10)>>, "Text", s),
              Reg(<<Px(10), Px(0), Px(20), Px(10)>>, "Title", s),
              Reg(<<Px(20), Px(10), Px(30), Px(20)>>, "Picture", s),
              Reg(<<Px(5), Px(5), Px(15), Px(15)>>, "Table", s),
              Reg(<<Px(40), Px(40), Px(50), Px(50)>>, "List-item", s) } : s \in Scores }

SmallPages == UNION { [1..n -> RegionPool] : n \in 0..MaxRegions }

\* Every box with corners on a small grid, degenerate boxes included.
GridCoords == { Px(10 * k) : k \in 0..GridSteps }
GridBoxes == { <<x1, y1, x2, y2>> : x1 \in GridCoords, y1 \in GridCoords,
                                    x2 \in GridCoords, y2 \in GridCoords }
WellFormed(box) == box[1] <= box[3] /\ box[2] <= box[4]
GridPages == { <<Reg(b1, "Text", 90), Reg(b2, "Text", 60)>> :
                   b1 \in { b \in GridBoxes : WellFormed(b) },
                   b2 \in { b \in GridBoxes : WellFormed(b) } }

\* Six boxes in a row, each intersecting only the next one.  ChainPath[k] is
\* the list index of the k-th box of the row.
ChainPath == <<0, 5, 2, 3, 4, 1>>
ChainSlot(i) == CHOOSE k \in 1..Len(ChainPath) : ChainPath[k] = i
ChainBox(k) == <<Px(15 * k), Px(0), Px(15 * k + 20), Px(10)>>
ChainPages ==
    { [i \in 1..Len(ChainPath) |-> Reg(ChainBox(ChainSlot(i - 1)), "Text", sc[i])] :
          sc \in [1..Len(ChainPath) -> Scores] }

\* A centre box with three rows of boxes leaving it to the right, to the left
\* and downwards; each box of a row intersects only its predecessor.
StarCentre == <<8>>
StarRight == <<5, 4, 7, 0>>
StarLeft == <<3, 10, 1>>
StarDown == <<6, 9, 2>>
StarBox(i) ==
    IF i = StarCentre[1] THEN <<Px(100), Px(100), Px(120), Px(120)>>
    ELSE IF \E j \in 1..Len(StarRight) : StarRight[j] = i
    THEN LET j == CHOOSE j \in 1..Len(StarRight) : StarRight[j] = i
         IN <<Px(100 + 15 * j), Px(100), Px(120 + 15 * j), Px(104)>>
    ELSE IF \E j \in 1..Len(StarLeft) : StarLeft[j] = i
    THEN LET j == CHOOSE j \in 1..Len(StarLeft) : StarLeft[j] = i
         IN <<Px(100 - 15 * j), Px(100), Px(120 - 15 * j), Px(104)>>
    ELSE LET j == CHOOSE j \in 1..Len(StarDown) : StarDown[j] = i
         IN <<Px(100), Px(100 + 15 * j), Px(104), Px(120 + 15 * j)>>
StarSize == Len(StarCentre) + Len(StarRight) + Len(StarLeft) + Len(StarDown)
StarPages == { [i \in 1..StarSize |-> Reg(StarBox(i - 1), "Text", s)] : s \in Scores }

InputPages == SmallPages \cup GridPages \cup ChainPages \cup StarPages

----------------------------------------------------------------------------
(* Helpers for Python sets and lists *)

Range(seq) == { seq[k] : k \in 1..Len(seq) }

Min(S) == CHOOSE x \in S : \A y \in S : x <= y
Max(S) == CHOOSE x \in S : \A y \in S : y <= x

RECURSIVE Ascending(_)
Ascending(S) == IF S = {} THEN <<>> ELSE <<Min(S)>> \o Ascending(S \ {Min(S)})

RECURSIVE Descending(_)
Descending(S) == IF S = {} THEN <<>> ELSE <<Max(S)>> \o Descending(S \ {Max(S)})

AllOrders(S) ==
    { f \in [1..Cardinality(S) -> S] : \A a, b \in 1..Cardinality(S) : a # b => f[a] # f[b] }

\* The orders in which a Python set of indexes may be iterated: the language
\* leaves the order open.  Every order for a small set, the two monotone orders
\* for a larger one.
SetOrders(S) ==
    IF Cardinality(S) <= MaxPermuted THEN AllOrders(S)
    ELSE {Ascending(S), Descending(S)}

----------------------------------------------------------------------------
(* process_bboxes.py *)

\* the test without its first comparison
bboxes_overlaps_no_left(region1, region2) ==
    ~ (   region1.box[1] > region2.box[3]
       \/ region1.box[4] < region2.box[2]
       \/ region1.box[2] > region2.box[4])

\* the test with boxes that only touch counted as apart
bboxes_overlaps_strict(region1, region2) ==
    ~ (   region1.box[3] <= region2.box[1]
       \/ region1.box[1] >= region2.box[3]
       \/ region1.box[4] <= region2.box[2]
       \/ region1.box[2] >= region2.box[4])

\* the test without its last comparison
bboxes_overlaps_no_above(region1, region2) ==
    ~ (   region1.box[3] < region2.box[1]
       \/ region1.box[1] > region2.box[3]
       \/ region1.box[4] < region2.box[2])

bboxes_overlaps(region1, region2) ==
    LET x_min_1 == region1.box[1]
        y_min_1 == region1.box[2]
        x_max_1 == region1.box[3]
        y_max_1 == region1.box[4]
        x_min_2 == region2.box[1]
        y_min_2 == region2.box[2]
        x_max_2 == region2.box[3]
        y_max_2 == region2.box[4]
    IN ~ (   x_max_1 < x_min_2
          \/ x_min_1 > x_max_2
          \/ y_max_1 < y_min_2
          \/ y_min_1 > y_max_2)

_is_overlapping(res, index1, index2) == bboxes_overlaps(res[index1 + 1], res[index2 + 1])

RECURSIVE FindOverlapsFrom(_, _, _)
FindOverlapsFrom(res, index1, index2) ==
    IF index1 >= Len(res) THEN <<>>
    ELSE IF index2 >= Len(res) THEN FindOverlapsFrom(res, index1 + 1, index1 + 2)
    ELSE (IF _is_overlapping(res, index1, index2) THEN << <<index1, index2>> >> ELSE <<>>)
         \o FindOverlapsFrom(res, index1, index2 + 1)

_find_overlaps(res) == FindOverlapsFrom(res, 0, 1)

_convert_overlaps_to_set(ovl) == { ovl[k][1] : k \in 1..Len(ovl) } \cup { ovl[k][2] : k \in 1..Len(ovl) }

\* 0-based position of the first group that contains searching, -1 if none
_get_group_index(searching, all_groups) ==
    IF \E i \in 1..Len(all_groups) : searching \in all_groups[i]
    THEN Min({ i \in 1..Len(all_groups) : searching \in all_groups[i] }) - 1
    ELSE -1

\* the members the inner loop over overlaps adds to the group of box_index
TouchingMembers(box_index, ovl) ==
    { ovl[k][2] : k \in { k \in 1..Len(ovl) : ovl[k][1] = box_index } }
    \cup { ovl[k][1] : k \in { k \in 1..Len(ovl) : ovl[k][2] = box_index } }

\* first loop of _group_overlaps, over the indexes in iteration order
RECURSIVE SeedGroups(_, _, _)
SeedGroups(order, ovl, grps) ==
    IF order = <<>> THEN grps
    ELSE LET box_index == Head(order)
             gi == _get_group_index(box_index, grps)
             grp == IF gi >= 0 THEN grps[gi + 1] ELSE {}
             filled == grp \cup TouchingMembers(box_index, ovl)
             saved == IF gi < 0 THEN Append(grps, filled)
                      ELSE [grps EXCEPT ![gi + 1] = filled]
         IN SeedGroups(Tail(order), ovl, saved)

\* inner loop of the merge: group1 absorbs every later, not yet removed group
\* that intersects it
RECURSIVE MergeInto(_, _, _, _)
MergeInto(grps, group_index2, group1, remove_group_indexes) ==
    IF group_index2 >= Len(grps)
    THEN [group1 |-> group1, remove_group_indexes |-> remove_group_indexes]
    ELSE IF group_index2 \in remove_group_indexes
    THEN MergeInto(grps, group_index2 + 1, group1, remove_group_indexes)
    ELSE IF group1 \cap grps[group_index2 + 1] # {}
    THEN MergeInto(grps, group_index2 + 1, group1 \cup grps[group_index2 + 1],
                   remove_group_indexes \cup {group_index2})
    ELSE MergeInto(grps, group_index2 + 1, group1, remove_group_indexes)

\* outer loop of the merge: one pass over the seeded groups
RECURSIVE MergeGroups(_, _, _, _)
MergeGroups(grps, group_index1, remove_group_indexes, unique_groups) ==
    IF group_index1 >= Len(grps) THEN unique_groups
    ELSE IF group_index1 \in remove_group_indexes
    THEN MergeGroups(grps, group_index1 + 1, remove_group_indexes, unique_groups)
    ELSE LET m == MergeInto(grps, group_index1 + 1, grps[group_index1 + 1],
                            remove_group_indexes)
         IN MergeGroups(grps, group_index1 + 1, m.remove_group_indexes,
                        Append(unique_groups, m.group1))

\* the grouping started from a list that already holds an empty group
_group_overlaps_seeded(order, ovl) == MergeGroups(SeedGroups(order, ovl, <<{}>>), 0, {}, <<>>)

_group_overlaps(order, ovl) == MergeGroups(SeedGroups(order, ovl, <<>>), 0, {}, <<>>)

\* the test with its second comparison left out
_is_direct_neightbour_one_way(max_score_index, member_index, ovl) ==
    \E k \in 1..Len(ovl) : ovl[k][1] = max_score_index /\ ovl[k][2] = member_index

_is_direct_neightbour(max_score_index, member_index, ovl) ==
    \E k \in 1..Len(ovl) :
        \/ ovl[k][1] = max_score_index /\ ovl[k][2] = member_index
        \/ ovl[k][1] = member_index /\ ovl[k][2] = max_score_index

\* the selection turned around: a member with the lowest score
MaxScoreCandidates_min(res, grp) ==
    { x \in grp : \A y \in grp : res[y + 1].score >= res[x + 1].score }

\* max(group, key=score) returns the first maximal member in the iteration
\* order of the set, which may be any member with the maximal score
MaxScoreCandidates(res, grp) ==
    { x \in grp : \A y \in grp : res[y + 1].score <= res[x + 1].score }

\* a round that stops at the first direct neighbour it removes
RoundRemoved_first_only(max_score, grp, ovl) ==
    LET direct == { member \in grp : member # max_score
                                      /\ _is_direct_neightbour(max_score, member, ovl) }
    IN IF direct = {} THEN {} ELSE {Min(direct)}

\* a round that spares the direct neighbours whose score equals the maximum
RoundRemoved_not_ties(max_score, grp, ovl) ==
    { member \in grp : /\ member # max_score
                       /\ _is_direct_neightbour(max_score, member, ovl)
                       /\ results[member + 1].score # results[max_score + 1].score }

\* members one round of _process_group adds to removed
RoundRemoved(max_score, grp, ovl) ==
    { member \in grp : member # max_score /\ _is_direct_neightbour(max_score, member, ovl) }

\* a round that carries every other member into the next round
ToFurtherProcess_all(max_score, grp, ovl) == grp \ {max_score}

\* a round that keeps the selected index in the group
ToFurtherProcess_with_selected(max_score, grp, ovl) ==
    { member \in grp : ~ _is_direct_neightbour(max_score, member, ovl) }

\* members one round of _process_group keeps for the next round
ToFurtherProcess(max_score, grp, ovl) ==
    { member \in grp : member # max_score /\ ~ _is_direct_neightbour(max_score, member, ovl) }

\* the final loop with the removal set read as 1-based positions
RECURSIVE CollectRegions_shifted(_, _, _)
CollectRegions_shifted(res, removing, index) ==
    IF index >= Len(res) THEN <<>>
    ELSE (IF index + 1 \in removing THEN <<>> ELSE <<res[index + 1]>>)
         \o CollectRegions_shifted(res, removing, index + 1)

\* the final loop of get_list_of_regions
RECURSIVE CollectRegions(_, _, _)
CollectRegions(res, removing, index) ==
    IF index >= Len(res) THEN <<>>
    ELSE (IF index \in removing THEN <<>> ELSE <<res[index + 1]>>)
         \o CollectRegions(res, removing, index + 1)

----------------------------------------------------------------------------
(* State machine: one call of get_list_of_regions, then a call on its output *)

Start(res, r) ==
    /\ results = res
    /\ overlaps = <<>>
    /\ overlapping_bboxes_set = {}
    /\ groups = <<>>
    /\ remove_indexes = {}
    /\ group_index = 0
    /\ group = {}
    /\ removed = {}
    /\ selected = {}
    /\ rounds = 0
    /\ new_regions = <<>>
    /\ run = r
    /\ pc = "find_overlaps"

\* TemplateJsonCreator.__init__, before any process_page call
NoPages(number) ==
    /\ page_number = number
    /\ dev_rects = <<>>
    /\ built = <<>>
    /\ elements = <<>>
    /\ template_json_pages = <<>>
    /\ calls = <<>>

\* no command line: the classes are used on their own
NoMain ==
    /\ command = "none"
    /\ zoom = 0
    /\ input_path = <<>>
    /\ output_path = <<>>
    /\ main_pc = "none"
    /\ update_thread = "unstarted"
    /\ joined = FALSE
    /\ exc = "none"
    /\ exit_code = "none"
    /\ num_pages = 0
    /\ page_index = 0
    /\ trace = <<>>

Init == NoMain /\ \E res \in InputPages : input = res /\ Start(res, 1) /\ NoPages(1)

FindOverlaps ==
    /\ pc = "find_overlaps"
    /\ overlaps' = _find_overlaps(results)
    /\ pc' = "convert"
    /\ UNCHANGED <<mainvars, rounds, pagevars, input, results, overlapping_bboxes_set, groups, remove_indexes, group_index,
                   group, removed, selected, new_regions, run>>

ConvertOverlapsToSet ==
    /\ pc = "convert"
    /\ overlapping_bboxes_set' = _convert_overlaps_to_set(overlaps)
    /\ pc' = "group"
    /\ UNCHANGED <<mainvars, rounds, pagevars, input, results, overlaps, groups, remove_indexes, group_index,
                   group, removed, selected, new_regions, run>>

GroupOverlaps ==
    /\ pc = "group"
    /\ \E order \in SetOrders(overlapping_bboxes_set) :
           groups' = _group_overlaps(order, overlaps)
    /\ remove_indexes' = {}
    /\ group_index' = 0
    /\ pc' = "resolve"
    /\ UNCHANGED <<mainvars, rounds, pagevars, input, results, overlaps, overlapping_bboxes_set,
                   group, removed, selected, new_regions, run>>

\* _get_removing_indexes takes the next group and calls _process_group
ProcessGroupCall ==
    /\ pc = "resolve"
    /\ group_index < Len(groups)
    /\ group' = groups[group_index + 1]
    /\ removed' = {}
    /\ rounds' = 0
    /\ pc' = "process_group"
    /\ UNCHANGED <<mainvars, pagevars, input, results, overlaps, overlapping_bboxes_set, groups, remove_indexes,
                   group_index, selected, new_regions, run>>

\* one iteration of the while loop of _process_group
ProcessGroupRound ==
    /\ pc = "process_group"
    /\ group # {}
    /\ \E max_score \in MaxScoreCandidates(results, group) :
           /\ removed' = removed \cup RoundRemoved(max_score, group, overlaps)
           /\ group' = ToFurtherProcess(max_score, group, overlaps)
           /\ selected' = selected \cup {max_score}
    /\ rounds' = rounds + 1
    /\ UNCHANGED <<mainvars, pagevars, input, results, overlaps, overlapping_bboxes_set, groups, remove_indexes,
                   group_index, new_regions, run, pc>>

\* _process_group returns and _get_removing_indexes adds its result
ProcessGroupReturn ==
    /\ pc = "process_group"
    /\ group = {}
    /\ remove_indexes' = remove_indexes \cup removed
    /\ group_index' = group_index + 1
    /\ pc' = "resolve"
    /\ UNCHANGED <<mainvars, rounds, pagevars, input, results, overlaps, overlapping_bboxes_set, groups,
                   group, removed, selected, new_regions, run>>

GetRemovingIndexesReturn ==
    /\ pc = "resolve"
    /\ group_index >= Len(groups)
    /\ pc' = "collect"
    /\ UNCHANGED <<mainvars, rounds, pagevars, input, results, overlaps, overlapping_bboxes_set, groups, remove_indexes,
                   group_index, group, removed, selected, new_regions, run>>

Collect ==
    /\ pc = "collect"
    /\ new_regions' = CollectRegions(results, remove_indexes, 0)
    /\ pc' = "done"
    /\ UNCHANGED <<mainvars, rounds, pagevars, input, results, overlaps, overlapping_bboxes_set, groups, remove_indexes,
                   group_index, group, removed, selected, run>>

\* a new PostProcessingBBoxes on the list the previous call returned
Rerun ==
    /\ pc = "done"
    /\ run < MaxRuns
    /\ results' = new_regions
    /\ overlaps' = <<>>
    /\ overlapping_bboxes_set' = {}
    /\ groups' = <<>>
    /\ remove_indexes' = {}
    /\ group_index' = 0
    /\ group' = {}
    /\ removed' = {}
    /\ selected' = {}
    /\ rounds' = 0
    /\ new_regions' = <<>>
    /\ run' = run + 1
    /\ UNCHANGED <<mainvars, pagevars, input>>
    /\ pc' = "find_overlaps"

Next ==
    \/ FindOverlaps
    \/ ConvertOverlapsToSet
    \/ GroupOverlaps
    \/ ProcessGroupCall
    \/ ProcessGroupRound
    \/ ProcessGroupReturn
    \/ GetRemovingIndexesReturn
    \/ Collect
    \/ Rerun

Spec == Init /\ [][Next]_vars

----------------------------------------------------------------------------
(* get_list_of_regions on pages whose scores are pairwise distinct *)

DistinctScores(res) == \A a, b \in 1..Len(res) : a # b => res[a].score # res[b].score

ChainScores == {50, 60, 70, 80, 90, 95}

\* the six boxes in a row under every assignment of six different scores
DistinctChainPages ==
    { [i \in 1..Len(ChainPath) |-> Reg(ChainBox(ChainSlot(i - 1)), "Text", sc[i])] :
          sc \in AllOrders(ChainScores) }

GreedyPages == { res \in SmallPages : DistinctScores(res) } \cup DistinctChainPages

GreedyInit == NoMain /\ \E res \in GreedyPages : input = res /\ Start(res, 1) /\ NoPages(1)

GreedyNext ==
    \/ FindOverlaps
    \/ ConvertOverlapsToSet
    \/ GroupOverlaps
    \/ ProcessGroupCall
    \/ ProcessGroupRound
    \/ ProcessGroupReturn
    \/ GetRemovingIndexesReturn
    \/ Collect

GreedySpec == GreedyInit /\ [][GreedyNext]_vars

----------------------------------------------------------------------------
(* template_json.py: elements of one page *)

Vocabulary ==
    {"Caption", "Checkbox-Selected", "Checkbox-Unselected", "Code", "Document Index",
     "Footnote", "Form", "Formula", "Key-Value Region", "Picture", "Page-footer",
     "Page-header", "List-item", "Section-header", "Table", "Text", "Title"}

\* a label the match statement has no case for
Unrecognized == "Stamp"

\* str.lower() on the labels
LowerCase ==
    [l \in Vocabulary \cup {Unrecognized} |->
        CASE l = "Caption" -> "caption"
          [] l = "Checkbox-Selected" -> "checkbox-selected"
          [] l = "Checkbox-Unselected" -> "checkbox-unselected"
          [] l = "Code" -> "code"
          [] l = "Document Index" -> "document index"
          [] l = "Footnote" -> "footnote"
          [] l = "Form" -> "form"
          [] l = "Formula" -> "formula"
          [] l = "Key-Value Region" -> "key-value region"
          [] l = "Picture" -> "picture"
          [] l = "Page-footer" -> "page-footer"
          [] l = "Page-header" -> "page-header"
          [] l = "List-item" -> "list-item"
          [] l = "Section-header" -> "section-header"
          [] l = "Table" -> "table"
          [] l = "Text" -> "text"
          [] l = "Title" -> "title"
          [] OTHER -> "stamp"]

offset == 2

\* int() of a float given in hundredths: the fraction is cut off, towards zero
IntOf_floor(v) == v \div 100

IntOf(v) == IF v >= 0 THEN v \div 100 ELSE - ((- v) \div 100)

\* the PdfDevRect built from a region, in whole pixels
DevRect(region) ==
    [left |-> IntOf(region.box[1] - Px(offset)),
     top |-> IntOf(region.box[2] - Px(offset)),
     right |-> IntOf(region.box[3] + Px(offset)),
     bottom |-> IntOf(region.box[4] + Px(offset))]

\* PdfPageView.RectToPage of the SDK: page space has its origin at the bottom
\* left, so the vertical axis is flipped
PageHeight == 300
RectToPage(rect) ==
    [left |-> rect.left, top |-> PageHeight - rect.top,
     right |-> rect.right, bottom |-> PageHeight - rect.bottom]

\* str() of a page coordinate and float() of such a string
PageCoords == (0 - 10)..(PageHeight + 10)
Str(n) == ToString(n)
Float(str) == CHOOSE n \in PageCoords : ToString(n) = str

\* a flag string such as "no_join|no_split" is the list of its tokens
NoJoinSplit == <<"no_join", "no_split">>

TextFields == [flag |-> NoJoinSplit, text_flag |-> "no_new_line", type |-> "pde_text"]

\* the match statement with the header case doing what the footer case does
LabelFields_header_as_footer(label) ==
    IF label = "Page-header"
    THEN [flag |-> <<"footer", "artifact">> \o NoJoinSplit, text_flag |-> "no_new_line",
          type |-> "pde_text"]
    ELSE IF label \in {"Formula", "Picture"} THEN [flag |-> NoJoinSplit, type |-> "pde_image"]
    ELSE IF label = "Table" THEN [flag |-> NoJoinSplit, type |-> "pde_table"]
    ELSE TextFields

\* the match statement without the heading of a section header
LabelFields_no_heading(label) ==
    IF label \in {"Formula", "Picture"} THEN [flag |-> NoJoinSplit, type |-> "pde_image"]
    ELSE IF label = "Table" THEN [flag |-> NoJoinSplit, type |-> "pde_table"]
    ELSE IF label = "Page-footer"
    THEN [flag |-> <<"footer", "artifact">> \o NoJoinSplit, text_flag |-> "no_new_line",
          type |-> "pde_text"]
    ELSE IF label = "Page-header"
    THEN [flag |-> <<"header", "artifact">> \o NoJoinSplit, text_flag |-> "no_new_line",
          type |-> "pde_text"]
    ELSE TextFields

\* the keys the match statement sets for a label
LabelFields(label) ==
    CASE label = "Caption" -> ("tag" :> "Caption") @@ TextFields
      [] label = "Checkbox-Selected" -> TextFields
      [] label = "Checkbox-Unselected" -> TextFields
      [] label = "Code" -> TextFields
      [] label = "Document Index" -> TextFields
      [] label = "Footnote" -> TextFields
      [] label = "Form" -> TextFields
      [] label = "Formula" -> [tag |-> "Formula", flag |-> NoJoinSplit, type |-> "pde_image"]
      [] label = "Key-Value Region" -> TextFields
      [] label = "Picture" -> [flag |-> NoJoinSplit, type |-> "pde_image"]
      [] label = "Page-footer" ->
             [flag |-> <<"footer", "artifact">> \o NoJoinSplit, text_flag |-> "no_new_line",
              type |-> "pde_text"]
      [] label = "Page-header" ->
             [flag |-> <<"header", "artifact">> \o NoJoinSplit, text_flag |-> "no_new_line",
              type |-> "pde_text"]
      [] label = "List-item" -> TextFields
      [] label = "Section-header" -> ("heading" :> "h1") @@ TextFields
      [] label = "Table" -> [flag |-> NoJoinSplit, type |-> "pde_table"]
      [] label = "Text" -> TextFields
      [] label = "Title" -> ("tag" :> "Title") @@ TextFields
      [] OTHER -> TextFields

\* the element dict at the end of one loop iteration; the comment
\* "<label> <score>%" is the pair of its two parts
ElementFor(region) ==
    LET bbox == RectToPage(DevRect(region))
    IN [bbox |-> <<Str(bbox.left), Str(bbox.bottom), Str(bbox.right), Str(bbox.top)>>,
        comment |-> <<LowerCase[region.label], region.score>>]
       @@ LabelFields(region.label)

\* a loop that appends the list items too
Discarded_none(label) == FALSE

\* the case that ends with continue
Discarded(label) == label = "List-item"

RECURSIVE AppendedElements(_, _)
AppendedElements(regions, k) ==
    IF k > Len(regions) THEN <<>>
    ELSE (IF Discarded(regions[k].label) THEN <<>> ELSE <<ElementFor(regions[k])>>)
         \o AppendedElements(regions, k + 1)

SortKey(x) == <<Float(x.bbox[2]), 1000 - Float(x.bbox[1])>>

KeyLess(k1, k2) == k1[1] < k2[1] \/ (k1[1] = k2[1] /\ k1[2] < k2[2])

\* place of seq[k] in the sorted list: behind the elements with a larger key
\* and behind the earlier elements with an equal key
Rank(seq, k) ==
    1 + Cardinality({ j \in 1..Len(seq) :
                          \/ KeyLess(SortKey(seq[k]), SortKey(seq[j]))
                          \/ SortKey(seq[j]) = SortKey(seq[k]) /\ j < k })

\* sorted(elements, key=..., reverse=True): descending and stable; the list is
\* bound to seq so that it is evaluated once
sorted_reverse(list) ==
    CHOOSE srt \in { [p \in 1..Len(seq) |-> seq[CHOOSE k \in 1..Len(seq) : Rank(seq, k) = p]] :
                         seq \in {list} } : TRUE

json_for_page(number, elems) ==
    [comment |-> <<"Page", number>>,
     elements |-> elems,
     query |-> ("$and" :> << ("$page_num" :> number) >>),
     statement |-> "$if"]

\* an append that puts the new page in front
AppendPage_front(pages, page) == <<page>> \o pages

AppendPage(pages, page) == Append(pages, page)

----------------------------------------------------------------------------
(* State machine of process_page *)

MaxElementRegions == 3
MaxDocRegions == 2
MaxPageNumber == 2
MaxCalls == 2

\* the loop over the regions and the sort of _create_json_for_elements
CreateJsonForElements ==
    /\ pc = "done"
    /\ run = 1
    /\ dev_rects' = [k \in 1..Len(new_regions) |-> DevRect(new_regions[k])]
    /\ built' = [k \in 1..Len(new_regions) |-> ElementFor(new_regions[k])]
    /\ elements' = sorted_reverse(AppendedElements(new_regions, 1))
    /\ pc' = "elements"
    /\ UNCHANGED <<mainvars, input, results, overlaps, overlapping_bboxes_set, groups, remove_indexes,
                   group_index, group, removed, selected, rounds, new_regions, run,
                   page_number, template_json_pages, calls>>

\* process_page appends the page and returns
ProcessPageReturn ==
    /\ pc = "elements"
    /\ template_json_pages' = AppendPage(template_json_pages, json_for_page(page_number, elements))
    /\ calls' = Append(calls, [page_number |-> page_number, results |-> input])
    /\ pc' = "page_done"
    /\ UNCHANGED <<mainvars, input, results, overlaps, overlapping_bboxes_set, groups, remove_indexes,
                   group_index, group, removed, selected, rounds, new_regions, run,
                   page_number, dev_rects, built, elements>>

\* Regions for the element rules: different heights, fractional coordinates,
\* two narrow boxes whose rects get equal left and bottom edges, a list item.
ElementPool ==
    { Reg(<<Px(0), Px(0), Px(10), Px(100)>>, "Text", 90),
      Reg(<<Px(50), Px(10), Px(60), Px(50)>>, "Table", 80),
      Reg(<<Px(5), Px(5), Px(55), Px(15)>>, "Section-header", 60),
      Reg(<<5050, 6025, 7075, 8050>>, "List-item", 80),
      Reg(<<50, Px(120), 60, 14050>>, "Picture", 90),
      Reg(<<70, Px(125), 80, 14090>>, "Title", 60) }

\* the end-to-end scenario: R1 and R2 overlap, R3 is isolated
ScenarioPage ==
    << Reg(<<Px(0), Px(0), Px(100), Px(50)>>, "Text", 90),
       Reg(<<Px(50), Px(10), Px(150), Px(60)>>, "Text", 60),
       Reg(<<Px(200), Px(200), Px(250), Px(250)>>, "Picture", 80) >>

\* one region of every label, and each label next to a list item
LabelPages ==
    { <<Reg(<<1050, 2075, Px(30), 4025>>, l, 80)>> : l \in Vocabulary \cup {Unrecognized} }
    \cup { <<Reg(<<Px(100), Px(0), Px(110), Px(10)>>, "List-item", 90),
             Reg(<<1050, 2075, Px(30), 4025>>, l, 80)>> : l \in Vocabulary \cup {Unrecognized} }

ElementPages ==
    UNION { [1..n -> ElementPool] : n \in 0..MaxElementRegions }
    \cup {ScenarioPage} \cup LabelPages

ElementInit == NoMain /\ \E res \in ElementPages : input = res /\ Start(res, 1) /\ NoPages(1)

ElementNext ==
    \/ FindOverlaps
    \/ ConvertOverlapsToSet
    \/ GroupOverlaps
    \/ ProcessGroupCall
    \/ ProcessGroupRound
    \/ ProcessGroupReturn
    \/ GetRemovingIndexesReturn
    \/ Collect
    \/ CreateJsonForElements
    \/ ProcessPageReturn

ElementSpec == ElementInit /\ [][ElementNext]_vars

\* three regions in a chain: the first round of _process_group removes the
\* middle one and carries the last one into a second round
CarriedPage ==
    << Reg(<<Px(0), Px(0), Px(10), Px(100)>>, "Text", 90),
       Reg(<<Px(5), Px(5), Px(55), Px(15)>>, "Section-header", 60),
       Reg(<<Px(50), Px(10), Px(60), Px(50)>>, "Table", 80) >>

\* the pages on which termination is checked: the shorter lists and the two
\* named pages
FairPages ==
    { res \in ElementPages : Len(res) < MaxElementRegions } \cup {ScenarioPage, CarriedPage}

ElementFairInit == NoMain /\ \E res \in FairPages : input = res /\ Start(res, 1) /\ NoPages(1)

\* the calls are sequential code: a step that can be taken is taken
ElementFairSpec == ElementFairInit /\ [][ElementNext]_vars /\ WF_vars(ElementNext)

\* Pages of a document: lists over two overlapping regions
DocPool ==
    { Reg(<<Px(0), Px(0), Px(10), Px(10)>>, "Text", 90),
      Reg(<<Px(5), Px(5), Px(15), Px(15)>>, "Table", 60) }

DocPages == UNION { [1..n -> DocPool] : n \in 0..MaxDocRegions }

PageNumbers == 1..MaxPageNumber

DocInit == NoMain /\ \E res \in DocPages, number \in PageNumbers :
               input = res /\ Start(res, 1) /\ NoPages(number)

\* the next process_page call on the same TemplateJsonCreator
ProcessPageCall ==
    /\ pc = "page_done"
    /\ Len(calls) < MaxCalls
    /\ \E res \in DocPages, number \in PageNumbers :
           /\ input' = res
           /\ results' = res
           /\ page_number' = number
    /\ overlaps' = <<>>
    /\ overlapping_bboxes_set' = {}
    /\ groups' = <<>>
    /\ remove_indexes' = {}
    /\ group_index' = 0
    /\ group' = {}
    /\ removed' = {}
    /\ selected' = {}
    /\ rounds' = 0
    /\ new_regions' = <<>>
    /\ dev_rects' = <<>>
    /\ built' = <<>>
    /\ elements' = <<>>
    /\ pc' = "find_overlaps"
    /\ UNCHANGED <<mainvars, run, template_json_pages, calls>>

DocNext ==
    \/ FindOverlaps
    \/ ConvertOverlapsToSet
    \/ GroupOverlaps
    \/ ProcessGroupCall
    \/ ProcessGroupRound
    \/ ProcessGroupReturn
    \/ GetRemovingIndexesReturn
    \/ Collect
    \/ CreateJsonForElements
    \/ ProcessPageReturn
    \/ ProcessPageCall

DocSpec == DocInit /\ [][DocNext]_vars

----------------------------------------------------------------------------
(* main.py, autotag.py, create_template.py: one run of the program *)

MaxPages == 2

corevars == <<input, results, overlaps, overlapping_bboxes_set, groups, remove_indexes,
              group_index, group, removed, selected, rounds, new_regions, run, pc, pagevars>>

argvars == <<command, zoom, input_path, output_path>>

\* a float: a number in hundredths, or not a number
Zoom(v) == [nan |-> FALSE, value |-> v]
NaN == [nan |-> TRUE, value |-> 0]

\* < and > on floats: every comparison with NaN is false
FloatLess(a, b) == ~ a.nan /\ ~ b.nan /\ a.value < b.value
FloatGreater(a, b) == ~ a.nan /\ ~ b.nan /\ a.value > b.value

\* zoom < 1.0 or zoom > 10.0
ZoomOutOfRange(z) == FloatLess(z, Zoom(100)) \/ FloatGreater(z, Zoom(1000))

\* str.lower() on the characters of the paths
LowerChar(c) ==
    CASE c = "P" -> "p"
      [] c = "D" -> "d"
      [] c = "F" -> "f"
      [] c = "J" -> "j"
      [] c = "S" -> "s"
      [] c = "O" -> "o"
      [] c = "N" -> "n"
      [] OTHER -> c

Lower(path) == [k \in 1..Len(path) |-> LowerChar(path[k])]

\* str.endswith
EndsWith(path, suffix) ==
    /\ Len(path) >= Len(suffix)
    /\ SubSeq(path, Len(path) - Len(suffix) + 1, Len(path)) = suffix

DotPdf == <<".", "p", "d", "f">>
DotJson == <<".", "j", "s", "o", "n">>

\* the suffix the subcommand asks of the output path
OutputSuffix(cmd) == IF cmd = "tag" THEN DotPdf ELSE DotJson

\* the exception process_file raises when a page step fails
FailException(cmd) ==
    IF cmd = "tag" THEN "PdfixFailedToTagException" ELSE "PdfixFailedToCreateTemplateException"

Commands == {"config", "tag", "template"}

Zooms == {Zoom(99), Zoom(100), Zoom(1000), Zoom(1001), NaN}

InputPaths ==
    { <<"a", ".", "p", "d", "f">>, <<"a", ".", "P", "d", "F">>,
      <<"a", ".", "j", "s", "o", "n">>, <<"p", "d", "f">> }

OutputPaths ==
    { <<"o", ".", "p", "d", "f">>, <<"o", ".", "P", "D", "F">>,
      <<"o", ".", "j", "s", "o", "n">>, <<"o", ".", "J", "s", "o", "N">>,
      <<"o", ".", "p", "d", "f", ".", "t", "x", "t">> }

\* what the layout detection may return for a page
DetectedPages == {<<>>, ScenarioPage}

Log(call, ok) == Append(trace, [call |-> call, page |-> page_index, ok |-> ok])

\* main has parsed the command line; no call on the page classes is running
MainInit ==
    /\ \E cmd \in Commands, z \in Zooms, inp \in InputPaths, out \in OutputPaths :
           /\ command = cmd
           /\ zoom = z
           /\ input_path = inp
           /\ output_path = out
    /\ main_pc = "start_thread"
    /\ update_thread = "unstarted"
    /\ joined = FALSE
    /\ exc = "none"
    /\ exit_code = "none"
    /\ num_pages = 0
    /\ page_index = 0
    /\ trace = <<>>
    /\ input = <<>>
    /\ results = <<>>
    /\ overlaps = <<>>
    /\ overlapping_bboxes_set = {}
    /\ groups = <<>>
    /\ remove_indexes = {}
    /\ group_index = 0
    /\ group = {}
    /\ removed = {}
    /\ selected = {}
    /\ rounds = 0
    /\ new_regions = <<>>
    /\ run = 1
    /\ pc = "page_done"
    /\ NoPages(0)

\* update_thread.start()
StartUpdateThread ==
    /\ main_pc = "start_thread"
    /\ update_thread' = "running"
    /\ main_pc' = "subcommand"
    /\ UNCHANGED <<corevars, argvars, joined, exc, exit_code, num_pages, page_index, trace>>

\* the thread's target runs to its end, at any moment after the start
CheckForImageUpdates ==
    /\ update_thread = "running"
    /\ update_thread' = "finished"
    /\ UNCHANGED <<corevars, argvars, main_pc, joined, exc, exit_code, num_pages, page_index,
                   trace>>

\* a call that ends well or fails: the failure sets the exception and the
\* position the control goes to
SdkStep(call, next_pc, e, fail_pc) ==
    /\ \E ok \in BOOLEAN :
           /\ trace' = Log(call, ok)
           /\ main_pc' = IF ok THEN next_pc ELSE fail_pc
           /\ exc' = IF ok THEN exc ELSE e
    /\ UNCHANGED <<corevars, argvars, update_thread, joined, exit_code, num_pages, page_index>>

RunConfigSubcommand ==
    /\ command = "config"
    /\ main_pc = "subcommand"
    /\ SdkStep("get_pdfix_config", "return", "OSError", "except")

\* head of autotagging_pdf and of create_template_json
ValidateArguments ==
    /\ main_pc = "subcommand"
    /\ command \in {"tag", "template"}
    /\ IF ZoomOutOfRange(zoom)
       THEN exc' = "ArgumentZoomException" /\ main_pc' = "except"
       ELSE IF /\ EndsWith(Lower(input_path), DotPdf)
               /\ EndsWith(Lower(output_path), OutputSuffix(command))
       THEN exc' = exc /\ main_pc' = "process_file"
       ELSE /\ exc' = (IF command = "tag" THEN "ArgumentInputPdfOutputPdfException"
                       ELSE "ArgumentInputPdfOutputJsonException")
            /\ main_pc' = "except"
    /\ UNCHANGED <<corevars, argvars, update_thread, joined, exit_code, num_pages, page_index,
                   trace>>

GetPdfixCall ==
    /\ main_pc = "process_file"
    /\ SdkStep("GetPdfix", "authorize", "PdfixInitializeException", "except")

AuthorizeSdk ==
    /\ main_pc = "authorize"
    /\ SdkStep("authorize_sdk", "open_doc", "PdfixAuthorizationException", "except")

\* OpenDoc and GetNumPages
OpenDoc ==
    /\ main_pc = "open_doc"
    /\ \/ /\ trace' = Log("OpenDoc", TRUE)
          /\ \E n \in 0..MaxPages : num_pages' = n
          /\ page_index' = 0
          /\ main_pc' = "loop"
          /\ exc' = exc
       \/ /\ trace' = Log("OpenDoc", FALSE)
          /\ exc' = "PdfixFailedToOpenException"
          /\ main_pc' = "except"
          /\ UNCHANGED <<num_pages, page_index>>
    /\ UNCHANGED <<corevars, argvars, update_thread, joined, exit_code>>

AcquirePage ==
    /\ page_index < num_pages
    /\ main_pc = "loop"
    /\ SdkStep("AcquirePage", "acquire_view", FailException(command), "except")

\* a failed AcquirePageView that goes through the release of the view
AcquirePageView_release_unobtained ==
    /\ main_pc = "acquire_view"
    /\ SdkStep("AcquirePageView", "render", FailException(command), "release_view")

AcquirePageView ==
    /\ main_pc = "acquire_view"
    /\ SdkStep("AcquirePageView", "render", FailException(command), "release_page")

RenderPage ==
    /\ main_pc = "render"
    /\ SdkStep("render_page", "detect", "PdfixFailedToRenderException", "release_view")

\* ai.process_page; when it returns, TemplateJsonCreator.process_page is entered
DetectRegions ==
    /\ main_pc = "detect"
    /\ \/ /\ \E res \in DetectedPages : input' = res /\ results' = res
          /\ trace' = Log("ai.process_page", TRUE)
          /\ page_number' = page_index + 1
          /\ overlaps' = <<>>
          /\ overlapping_bboxes_set' = {}
          /\ groups' = <<>>
          /\ remove_indexes' = {}
          /\ group_index' = 0
          /\ group' = {}
          /\ removed' = {}
          /\ selected' = {}
          /\ rounds' = 0
          /\ new_regions' = <<>>
          /\ dev_rects' = <<>>
          /\ built' = <<>>
          /\ elements' = <<>>
          /\ pc' = "find_overlaps"
          /\ main_pc' = "process_page"
          /\ UNCHANGED <<run, template_json_pages, calls, exc>>
       \/ /\ trace' = Log("ai.process_page", FALSE)
          /\ exc' = "Exception"
          /\ main_pc' = "release_view"
          /\ UNCHANGED corevars
    /\ UNCHANGED <<argvars, update_thread, joined, exit_code, num_pages, page_index>>

\* TemplateJsonCreator.process_page has appended the page and returned
TemplateProcessPageReturns ==
    /\ main_pc = "process_page"
    /\ pc = "page_done"
    /\ trace' = Log("process_page", TRUE)
    /\ main_pc' = "release_view"
    /\ UNCHANGED <<corevars, argvars, update_thread, joined, exc, exit_code, num_pages, page_index>>

\* the page view raises inside _create_json_for_elements: nothing is appended
TemplateProcessPageRaises ==
    /\ main_pc = "process_page"
    /\ pc = "done"
    /\ pc' = "page_done"
    /\ trace' = Log("process_page", FALSE)
    /\ exc' = "Exception"
    /\ main_pc' = "release_view"
    /\ UNCHANGED <<input, results, overlaps, overlapping_bboxes_set, groups, remove_indexes,
                   group_index, group, removed, selected, rounds, new_regions, run, pagevars,
                   argvars, update_thread, joined, exit_code, num_pages, page_index>>

\* finally: page_view.Release()
ReleasePageView ==
    /\ main_pc = "release_view"
    /\ trace' = Log("PageView.Release", TRUE)
    /\ main_pc' = "release_page"
    /\ UNCHANGED <<corevars, argvars, update_thread, joined, exc, exit_code, num_pages, page_index>>

\* finally: page.Release(); then the next page, or the exception goes on
ReleasePage ==
    /\ main_pc = "release_page"
    /\ trace' = Log("Page.Release", TRUE)
    /\ IF exc = "none"
       THEN page_index' = page_index + 1 /\ main_pc' = "loop"
       ELSE page_index' = page_index /\ main_pc' = "except"
    /\ UNCHANGED <<corevars, argvars, update_thread, joined, exc, exit_code, num_pages>>

\* create_json_dict_for_document and the write of the template file
WriteTemplate ==
    /\ page_index = num_pages
    /\ main_pc = "loop"
    /\ SdkStep("write_template", IF command = "tag" THEN "remove_tags" ELSE "return",
               "OSError", "except")

RemoveTags ==
    /\ main_pc = "remove_tags"
    /\ SdkStep("RemoveTags", "remove_struct_tree", "PdfixFailedToTagException",
            "except")

RemoveStructTree ==
    /\ main_pc = "remove_struct_tree"
    /\ SdkStep("RemoveStructTree", "create_mem_stream",
            "PdfixFailedToTagException", "except")

CreateMemStream ==
    /\ main_pc = "create_mem_stream"
    /\ SdkStep("CreateMemStream", "write_stream", "PdfixFailedToTagException",
            "except")

\* a failed Write that leaves without the finally clause
WriteStream_no_destroy ==
    /\ main_pc = "write_stream"
    /\ SdkStep("MemStream.Write", "load_template", "PdfixFailedToTagException",
            "except")

\* json_to_raw_data and memory_stream.Write
WriteStream ==
    /\ main_pc = "write_stream"
    /\ SdkStep("MemStream.Write", "load_template", "PdfixFailedToTagException",
            "destroy_stream")

LoadFromStream ==
    /\ main_pc = "load_template"
    /\ SdkStep("LoadFromStream", "destroy_stream", "PdfixFailedToTagException",
            "destroy_stream")

\* finally: memory_stream.Destroy()
DestroyStream ==
    /\ main_pc = "destroy_stream"
    /\ trace' = Log("MemStream.Destroy", TRUE)
    /\ main_pc' = IF exc = "none" THEN "add_tags" ELSE "except"
    /\ UNCHANGED <<corevars, argvars, update_thread, joined, exc, exit_code, num_pages, page_index>>

AddTags ==
    /\ main_pc = "add_tags"
    /\ SdkStep("AddTags", "save", "PdfixFailedToTagException", "except")

Save ==
    /\ main_pc = "save"
    /\ SdkStep("Save", "return", "PdfixFailedToSaveException", "except")

\* exceptions of Python itself: they do not derive from ExpectedException
BuiltinExceptions == {"Exception", "OSError"}

\* except ExpectedException: sys.exit(e.error_code); except Exception:
\* sys.exit(1).  Which of the program's own classes derive from
\* ExpectedException is not fixed here: either handler may catch them.
HandleException ==
    /\ main_pc = "except"
    /\ \E expected \in (IF exc \in BuiltinExceptions THEN {FALSE} ELSE BOOLEAN) :
           exit_code' = IF expected THEN "error_code" ELSE "1"
    /\ main_pc' = "finally"
    /\ UNCHANGED <<corevars, argvars, update_thread, joined, exc, num_pages, page_index, trace>>

\* args.func(args) returns
SubcommandReturns ==
    /\ main_pc = "return"
    /\ exit_code' = "0"
    /\ main_pc' = "finally"
    /\ UNCHANGED <<corevars, argvars, update_thread, joined, exc, num_pages, page_index, trace>>

\* a finally clause that does not wait for the thread
JoinGuard_no_wait(state) == TRUE

\* join() returns once the thread has ended
JoinGuard(state) == state = "finished"

\* finally: update_thread.join()
JoinUpdateThread ==
    /\ main_pc = "finally"
    /\ JoinGuard(update_thread)
    /\ joined' = TRUE
    /\ main_pc' = "exit"
    /\ UNCHANGED <<corevars, argvars, update_thread, exc, exit_code, num_pages, page_index, trace>>

\* main returns or SystemExit leaves it
ProcessExit ==
    /\ main_pc = "exit"
    /\ main_pc' = "exited"
    /\ UNCHANGED <<corevars, argvars, update_thread, joined, exc, exit_code, num_pages,
                   page_index, trace>>

MainNext ==
    \/ StartUpdateThread
    \/ CheckForImageUpdates
    \/ RunConfigSubcommand
    \/ ValidateArguments
    \/ GetPdfixCall
    \/ AuthorizeSdk
    \/ OpenDoc
    \/ AcquirePage
    \/ AcquirePageView
    \/ RenderPage
    \/ DetectRegions
    \/ FindOverlaps
    \/ ConvertOverlapsToSet
    \/ GroupOverlaps
    \/ ProcessGroupCall
    \/ ProcessGroupRound
    \/ ProcessGroupReturn
    \/ GetRemovingIndexesReturn
    \/ Collect
    \/ CreateJsonForElements
    \/ ProcessPageReturn
    \/ TemplateProcessPageReturns
    \/ TemplateProcessPageRaises
    \/ ReleasePageView
    \/ ReleasePage
    \/ WriteTemplate
    \/ RemoveTags
    \/ RemoveStructTree
    \/ CreateMemStream
    \/ WriteStream
    \/ LoadFromStream
    \/ DestroyStream
    \/ AddTags
    \/ Save
    \/ HandleException
    \/ SubcommandReturns
    \/ JoinUpdateThread
    \/ ProcessExit

MainSpec == MainInit /\ [][MainNext]_vars

----------------------------------------------------------------------------
(* Reference notions used to state the properties *)

Indexes == 0..(Len(results) - 1)

Larger(a, b) == IF a >= b THEN a ELSE b
Smaller(a, b) == IF a <= b THEN a ELSE b

\* two boxes have a common point: their x ranges and their y ranges intersect
Meets(box1, box2) ==
    /\ Larger(box1[1], box2[1]) <= Smaller(box1[3], box2[3])
    /\ Larger(box1[2], box2[2]) <= Smaller(box1[4], box2[4])

RegionsMeet(i, j) == Meets(results[i + 1].box, results[j + 1].box)

\* i and j are listed together in overlaps
Paired(i, j) == <<i, j>> \in Range(overlaps) \/ <<j, i>> \in Range(overlaps)

RECURSIVE LinkedTo(_)
LinkedTo(S) ==
    LET T == S \cup { j \in Indexes : \E i \in S : Paired(i, j) }
    IN IF T = S THEN S ELSE LinkedTo(T)

\* the connected component of i in the graph of overlaps
Component(i) == LinkedTo({i})

Isolated(i) == \A j \in Indexes \ {i} : ~ RegionsMeet(i, j)

Grouped == pc \in {"resolve", "process_group", "collect", "done"}

GroupSet == { groups[k] : k \in 1..Len(groups) }

Survivors == Indexes \ remove_indexes

\* the group handed to the running _process_group
OriginalGroup == groups[group_index + 1]

\* global greedy suppression: the regions are visited in descending score and
\* one is kept iff its box meets the box of no region kept before
RECURSIVE GreedyFrom(_, _, _)
GreedyFrom(res, todo, kept) ==
    IF todo = {} THEN kept
    ELSE LET best == CHOOSE x \in todo : \A y \in todo : res[y + 1].score <= res[x + 1].score
         IN GreedyFrom(res, todo \ {best},
                       IF \E k \in kept : Meets(res[best + 1].box, res[k + 1].box)
                       THEN kept ELSE kept \cup {best})

GreedyKept(res) == GreedyFrom(res, 0..(Len(res) - 1), {})

Resolved == pc \in {"done", "elements", "page_done"}

ElementsBuilt == pc \in {"elements", "page_done"}

\* i and j overlap each other and nothing else
OnlyEachOther(i, j) ==
    /\ i # j
    /\ RegionsMeet(i, j)
    /\ \A k \in Indexes \ {i, j} : ~ RegionsMeet(i, k) /\ ~ RegionsMeet(j, k)

ListItems(regions) == { k \in 1..Len(regions) : regions[k].label = "List-item" }

\* the elements made from a region with this label and score
ElementsOf(region) ==
    { q \in 1..Len(elements) :
          elements[q].comment = <<LowerCase[region.label], region.score>> }

Tokens(e) == Range(e.flag)

\* page-space edges of an element, and the place of its region among the survivors
Left(e) == Float(e.bbox[1])
Top(e) == Float(e.bbox[4])
Origin(e) == CHOOSE k \in 1..Len(built) : built[k] = e

\* n is v (in hundredths) with its fraction cut off
Truncated(n, v) ==
    /\ n * v >= 0
    /\ (IF n >= 0 THEN n ELSE - n) * 100 <= (IF v >= 0 THEN v ELSE - v)
    /\ (IF v >= 0 THEN v ELSE - v) < (IF n >= 0 THEN n ELSE - n) * 100 + 100

----------------------------------------------------------------------------
(* Properties *)

\* C1: the groups returned by _group_overlaps are pairwise disjoint: no region
\* index belongs to two different returned groups.
C1_GroupsDisjoint ==
    Grouped => \A a, b \in 1..Len(groups) : a # b => groups[a] \cap groups[b] = {}

\* C2: the returned groups are exactly the connected components of the overlap
\* graph on the indexes that take part in an overlap pair, each component once.
C2_GroupsAreComponents ==
    Grouped => /\ GroupSet = { Component(i) : i \in overlapping_bboxes_set }
               /\ Len(groups) = Cardinality(GroupSet)

\* C3: when A overlaps B, B overlaps C and A does not overlap C, one returned
\* group contains A, B and C.
C3_GroupingClosure ==
    Grouped => \A a, b, c \in Indexes :
                   (a # c /\ RegionsMeet(a, b) /\ a # b /\ RegionsMeet(b, c) /\ b # c
                        /\ ~ RegionsMeet(a, c))
                   => \E k \in 1..Len(groups) : {a, b, c} \subseteq groups[k]

\* C4: no two regions of the list returned by get_list_of_regions overlap each
\* other according to bboxes_overlaps.
C4_SurvivorsDoNotOverlap ==
    pc = "done" => \A a, b \in 1..Len(new_regions) :
                       a # b => ~ bboxes_overlaps(new_regions[a], new_regions[b])

C4_Witness ==
    /\ pc = "done"
    /\ run = 1
    /\ remove_indexes # {}
    /\ Len(new_regions) >= 2
    /\ \E i \in Survivors : \E j \in remove_indexes : Paired(i, j)

\* C5: an index selected as the round maximum of some group is never in the
\* removal set returned by _get_removing_indexes, so its region is in the output.
C5_SelectedNeverRemoved ==
    pc = "done" => /\ selected \cap remove_indexes = {}
                   /\ \A i \in selected : results[i + 1] \in Range(new_regions)

\* C6: every removed region directly overlaps a region of the returned list whose
\* score is greater than or equal to its own.
C6_RemovedHasBetterSurvivor ==
    pc = "done" => \A x \in remove_indexes :
                       \E y \in Survivors : /\ RegionsMeet(x, y)
                                            /\ results[y + 1].score >= results[x + 1].score

\* C7: get_list_of_regions applied to its own output returns that output
\* unchanged: same regions, same order, nothing removed.
C7_Idempotent ==
    (pc = "done" /\ run >= 2) => (new_regions = results /\ remove_indexes = {})

C7_Witness ==
    /\ pc = "done"
    /\ run = 2
    /\ Len(results) < Len(input)
    /\ Len(results) >= 2

\* C8: a region whose box overlaps no other region of the input is in no group,
\* is never in the removal set and is in the output.
C8_IsolatedSurvives ==
    \A i \in Indexes :
        Isolated(i) => /\ Grouped => \A k \in 1..Len(groups) : i \notin groups[k]
                       /\ i \notin overlapping_bboxes_set
                       /\ i \notin removed
                       /\ i \notin remove_indexes
                       /\ pc = "done" => results[i + 1] \in Range(new_regions)

C8_Witness ==
    /\ pc = "done"
    /\ run = 1
    /\ remove_indexes # {}
    /\ \E i \in Indexes : Isolated(i) /\ results[i + 1] \in Range(new_regions)

\* C9: the returned list is the input list without the regions of the removal
\* set, in increasing order of the original index, each kept region once.
C9_OutputIsSubsequence ==
    pc = "done" =>
        LET kept == Ascending(Survivors)
        IN /\ Len(new_regions) = Len(kept)
           /\ \A k \in 1..Len(kept) : new_regions[k] = results[kept[k] + 1]

C9_Witness ==
    /\ pc = "done"
    /\ run = 1
    /\ remove_indexes # {}
    /\ new_regions # <<>>
    /\ \E i \in remove_indexes : \E j \in Survivors : i < j

\* C10: bboxes_overlaps is true exactly when the boxes have a common point (so
\* also when they share only an edge or a corner, and not when a gap separates
\* them), and _find_overlaps lists exactly the pairs (i, j), i < j, for which it
\* is true, each once.
C10_OverlapTest ==
    /\ \A i, j \in Indexes :
           bboxes_overlaps(results[i + 1], results[j + 1]) <=> RegionsMeet(i, j)
    /\ pc # "find_overlaps" =>
           /\ Range(overlaps) = { <<i, j>> \in Indexes \X Indexes : i < j /\ RegionsMeet(i, j) }
           /\ Len(overlaps) = Cardinality(Range(overlaps))

\* two listed regions share a single corner point, two others are apart
C10_Witness ==
    /\ pc = "convert"
    /\ \E k \in 1..Len(overlaps) :
           LET b1 == results[overlaps[k][1] + 1].box
               b2 == results[overlaps[k][2] + 1].box
           IN b1[3] = b2[1] /\ b1[4] = b2[2] /\ b1[1] < b1[3] /\ b1[2] < b1[4]
                /\ b2[1] < b2[3] /\ b2[2] < b2[4]
    /\ \E i, j \in Indexes : i < j /\ ~ RegionsMeet(i, j)

\* C11: bboxes_overlaps is symmetric: for all regions a and b, boxes of zero
\* area included, bboxes_overlaps(a, b) equals bboxes_overlaps(b, a).
C11_OverlapSymmetric ==
    \A i, j \in Indexes :
        bboxes_overlaps(results[i + 1], results[j + 1])
            <=> bboxes_overlaps(results[j + 1], results[i + 1])

\* the pairs are listed, and a box of zero area lies on a box with an interior
C11_Witness ==
    /\ pc = "convert"
    /\ \E k \in 1..Len(overlaps) :
           LET b1 == results[overlaps[k][1] + 1].box
               b2 == results[overlaps[k][2] + 1].box
           IN b1[1] = b1[3] /\ b1[2] = b1[4] /\ b2[1] < b2[3] /\ b2[2] < b2[4]

\* C20: in every round of _process_group, with m the selected index, the other
\* members of the working group are split in two: those that directly overlap m
\* are added to removed and leave the group, the others are carried unchanged
\* into the next round; m has a score at least that of every index the round
\* marks removed.
C20_RoundSplit ==
    [][ (pc = "process_group" /\ pc' = "process_group")
          => \E m \in group :
                LET others == group \ {m}
                    direct == { x \in others : RegionsMeet(m, x) }
                IN /\ selected' = selected \cup {m}
                   /\ removed' = removed \cup direct
                   /\ group' = others \ direct
                   /\ \A x \in removed' \ removed :
                          /\ RegionsMeet(m, x)
                          /\ results[m + 1].score >= results[x + 1].score ]_vars

\* a round has removed a member and carried another one on
C20_Witness ==
    /\ pc = "process_group"
    /\ removed # {}
    /\ group # {}

\* C12: when two regions overlap each other and nothing else, the one with the
\* lower score is removed and the other kept, and an isolated region is kept;
\* on the scenario page (R1 Text 0.9, R2 Text 0.6 overlapping R1, R3 Picture
\* 0.8 apart) R1 and R3 survive and the element list has exactly 2 elements.
C12_PairAndScenario ==
    /\ Resolved =>
          /\ \A i, j \in Indexes :
                 OnlyEachOther(i, j) /\ results[i + 1].score < results[j + 1].score
                     => i \in remove_indexes /\ j \notin remove_indexes
          /\ \A k \in Indexes : Isolated(k) => k \notin remove_indexes
    /\ Resolved /\ input = ScenarioPage =>
          /\ remove_indexes = {1}
          /\ new_regions = <<ScenarioPage[1], ScenarioPage[3]>>
    /\ ElementsBuilt /\ input = ScenarioPage =>
          /\ Len(elements) = 2
          /\ { elements[q].comment : q \in 1..2 } = {<<"text", 90>>, <<"picture", 80>>}

C12_Witness ==
    /\ pc = "page_done"
    /\ input = ScenarioPage
    /\ OnlyEachOther(0, 1)
    /\ Isolated(2)

\* C13: no element comes from a region labelled "List-item": the number of
\* elements is the number of surviving regions minus the number of surviving
\* list items, and every surviving region with another label, known or not,
\* yields exactly one element.
C13_ListItemsDropped ==
    ElementsBuilt =>
        /\ Len(elements) = Len(new_regions) - Cardinality(ListItems(new_regions))
        /\ \A q \in 1..Len(elements) : elements[q].comment[1] # "list-item"
        /\ \A k \in 1..Len(new_regions) :
               Cardinality(ElementsOf(new_regions[k]))
                   = IF k \in ListItems(new_regions) THEN 0 ELSE 1

\* a list item and a region with another label have both survived
C13_Witness ==
    /\ pc = "elements"
    /\ ListItems(new_regions) # {}
    /\ Len(elements) >= 1

\* C14: the classification is a function of the label: type pde_table for
\* "Table", pde_image for "Formula" and "Picture", pde_text for every other
\* label, labels outside the vocabulary included; the flag always has no_join
\* and no_split, has header and artifact exactly for "Page-header", footer and
\* artifact exactly for "Page-footer"; text_flag = no_new_line is present
\* exactly when the type is pde_text.
C14_Classification ==
    ElementsBuilt =>
        /\ \A q \in 1..Len(elements) : \E k \in 1..Len(built) : elements[q] = built[k]
        /\ \A k \in 1..Len(built) :
               LET label == new_regions[k].label
                   e == built[k]
               IN /\ e.type = (IF label = "Table" THEN "pde_table"
                               ELSE IF label \in {"Formula", "Picture"} THEN "pde_image"
                               ELSE "pde_text")
                  /\ {"no_join", "no_split"} \subseteq Tokens(e)
                  /\ ({"header", "artifact"} \subseteq Tokens(e)) <=> (label = "Page-header")
                  /\ ({"footer", "artifact"} \subseteq Tokens(e)) <=> (label = "Page-footer")
                  /\ ("header" \in Tokens(e)) <=> (label = "Page-header")
                  /\ ("footer" \in Tokens(e)) <=> (label = "Page-footer")
                  /\ ("text_flag" \in DOMAIN e) <=> (e.type = "pde_text")
                  /\ "text_flag" \in DOMAIN e => e.text_flag = "no_new_line"

\* a page header has been classified
C14_Witness ==
    /\ pc = "elements"
    /\ \E q \in 1..Len(elements) : elements[q].comment[1] = "page-header"

\* C15 as stated: every element has the keys bbox (a list of 4 strings),
\* comment, type and flag, and no key other than these and the optional tag and
\* text_flag.
C15_ElementKeys ==
    ElementsBuilt =>
        \A q \in 1..Len(elements) :
            /\ {"bbox", "comment", "type", "flag"} \subseteq DOMAIN elements[q]
            /\ DOMAIN elements[q] \subseteq {"bbox", "comment", "type", "flag", "tag", "text_flag"}
            /\ Len(elements[q].bbox) = 4
            /\ \A c \in 1..4 : \E n \in PageCoords : elements[q].bbox[c] = ToString(n)

\* C15 amended: every element has the keys bbox (a list of 4 strings), comment,
\* type and flag, and no key other than these, the optional tag and text_flag,
\* and heading, which is present, with value h1, exactly on the elements of
\* "Section-header" regions.
C15_ElementKeysWithHeading ==
    ElementsBuilt =>
        \A q \in 1..Len(elements) :
            /\ {"bbox", "comment", "type", "flag"} \subseteq DOMAIN elements[q]
            /\ DOMAIN elements[q]
                   \subseteq {"bbox", "comment", "type", "flag", "tag", "text_flag", "heading"}
            /\ Len(elements[q].bbox) = 4
            /\ \A c \in 1..4 : \E n \in PageCoords : elements[q].bbox[c] = ToString(n)
            /\ ("heading" \in DOMAIN elements[q]) <=> (elements[q].comment[1] = "section-header")
            /\ "heading" \in DOMAIN elements[q] => elements[q].heading = "h1"

\* the element of a section header is in the list
C15_Witness ==
    /\ pc = "elements"
    /\ \E q \in 1..Len(elements) : elements[q].comment[1] = "section-header"

\* C16: the element list is ordered by page-space top edge descending, among
\* equal top edges by page-space left edge ascending, and elements with equal
\* keys keep their order from the surviving region list.
C16_SortedByTopEdge ==
    ElementsBuilt =>
        \A p, q \in 1..Len(elements) :
            p < q =>
                \/ Top(elements[p]) > Top(elements[q])
                \/ Top(elements[p]) = Top(elements[q]) /\ Left(elements[p]) < Left(elements[q])
                \/ /\ Top(elements[p]) = Top(elements[q])
                   /\ Left(elements[p]) = Left(elements[q])
                   /\ Origin(elements[p]) < Origin(elements[q])

\* C17 as stated: the rect handed to the transform is the box expanded by
\* exactly 2 units on each side, for every coordinate with two decimals.
C17_RectExpandedByTwo ==
    ElementsBuilt =>
        \A k \in 1..Len(dev_rects) :
            /\ Px(dev_rects[k].left) = new_regions[k].box[1] - Px(2)
            /\ Px(dev_rects[k].top) = new_regions[k].box[2] - Px(2)
            /\ Px(dev_rects[k].right) = new_regions[k].box[3] + Px(2)
            /\ Px(dev_rects[k].bottom) = new_regions[k].box[4] + Px(2)

\* C17 amended: the rect handed to the transform has left = int(x_min - 2),
\* top = int(y_min - 2), right = int(x_max + 2), bottom = int(y_max + 2), where
\* int cuts the fraction off towards zero; the box is expanded by exactly 2
\* units on a side when that coordinate is a whole number.
C17_RectTruncated ==
    ElementsBuilt =>
        /\ Len(dev_rects) = Len(new_regions)
        /\ \A k \in 1..Len(dev_rects) :
               LET box == new_regions[k].box
                   rect == dev_rects[k]
               IN /\ Truncated(rect.left, box[1] - Px(2))
                  /\ Truncated(rect.top, box[2] - Px(2))
                  /\ Truncated(rect.right, box[3] + Px(2))
                  /\ Truncated(rect.bottom, box[4] + Px(2))
                  /\ box[1] % 100 = 0 => Px(rect.left) = box[1] - Px(2)
                  /\ box[2] % 100 = 0 => Px(rect.top) = box[2] - Px(2)
                  /\ box[3] % 100 = 0 => Px(rect.right) = box[3] + Px(2)
                  /\ box[4] % 100 = 0 => Px(rect.bottom) = box[4] + Px(2)

\* a rect was made from a box whose left edge, moved by 2, is negative and
\* not whole
C17_Witness ==
    /\ pc = "elements"
    /\ \E k \in 1..Len(dev_rects) :
           /\ new_regions[k].box[1] < Px(2)
           /\ new_regions[k].box[1] % 100 # 0

\* C18: for the empty region list there are no overlap pairs, no groups, no
\* removals, an empty region list and an empty element list, and no step
\* fails: whatever the list, get_list_of_regions runs on until it has returned
\* and so does process_page.
C18_EmptyAndTotal ==
    /\ [](input = <<>> =>
             /\ overlaps = <<>>
             /\ overlapping_bboxes_set = {}
             /\ groups = <<>>
             /\ pc # "process_group"
             /\ remove_indexes = {}
             /\ new_regions = <<>>
             /\ elements = <<>>
             /\ pc = "page_done" => template_json_pages = <<json_for_page(page_number, <<>>)>>)
    /\ <>(pc = "done")
    /\ <>(pc = "page_done")

\* the call on the empty list has returned
C18_Witness ==
    /\ pc = "page_done"
    /\ input = <<>>
    /\ Len(template_json_pages) = 1

\* C19: template_json_pages holds one entry per process_page call, in call
\* order; the entry of a call with page number N has comment "Page N", a query
\* on $page_num N and the elements of that page; a call leaves the entries
\* appended before it unchanged, and the elements of a page depend only on the
\* regions of that page.
C19_PagesInCallOrder ==
    /\ [](/\ Len(template_json_pages) = Len(calls)
          /\ \A k \in 1..Len(calls) :
                 /\ template_json_pages[k].comment = <<"Page", calls[k].page_number>>
                 /\ template_json_pages[k].query["$and"] = << ("$page_num" :> calls[k].page_number) >>
                 /\ \A j \in 1..Len(calls) :
                        calls[j].results = calls[k].results
                            => template_json_pages[j].elements = template_json_pages[k].elements
          /\ pc = "page_done" =>
                 /\ calls[Len(calls)] = [page_number |-> page_number, results |-> input]
                 /\ template_json_pages[Len(calls)].elements = elements)
    /\ [][ /\ Len(template_json_pages') >= Len(template_json_pages)
           /\ \A k \in 1..Len(template_json_pages) :
                  template_json_pages'[k] = template_json_pages[k] ]_vars

\* two calls with different page numbers and different elements have returned
C19_Witness ==
    /\ pc = "page_done"
    /\ Len(template_json_pages) = 2
    /\ calls[1].page_number # calls[2].page_number
    /\ template_json_pages[1].elements # template_json_pages[2].elements
    /\ template_json_pages[1].elements # <<>>

\* C21: _process_group terminates: every round takes the selected index out
\* of the working group, so the group shrinks strictly, the loop makes at most
\* as many rounds as the group has members, and when it ends every member of
\* the group has either been selected or been marked removed.
C21_ProcessGroupTerminates ==
    /\ [][ (pc = "process_group" /\ pc' = "process_group")
             => /\ \E m \in group : m \in selected' /\ m \notin group'
                /\ group' \subseteq group
                /\ Cardinality(group') < Cardinality(group) ]_vars
    /\ [](pc = "process_group" =>
             /\ rounds + Cardinality(group) <= Cardinality(OriginalGroup)
             /\ group \cap removed = {}
             /\ group \cup removed \subseteq OriginalGroup
             /\ group = {} =>
                    /\ OriginalGroup \subseteq selected \cup removed
                    /\ Cardinality(OriginalGroup \ removed) = rounds)
    /\ (pc = "process_group" ~> pc = "resolve")

\* the loop has ended after two rounds, with one member removed
C21_Witness ==
    /\ pc = "process_group"
    /\ group = {}
    /\ rounds = 2
    /\ removed # {}

\* C22: every round selects exactly one index, also when several members have
\* the maximal score; when two regions of equal score overlap each other and
\* nothing else, exactly one of them survives.
C22_TiesSelectOne ==
    /\ [][ (pc = "process_group" /\ pc' = "process_group")
             => /\ Cardinality(group \ (group' \cup removed')) = 1
                /\ Cardinality(selected' \ selected) <= 1
                /\ rounds' = rounds + 1 ]_vars
    /\ [](Resolved =>
             \A i, j \in Indexes :
                 OnlyEachOther(i, j) /\ results[i + 1].score = results[j + 1].score
                     => Cardinality({i, j} \cap remove_indexes) = 1)

\* a pair of equal score that overlaps nothing else has been resolved
C22_Witness ==
    /\ pc = "done"
    /\ run = 1
    /\ \E i, j \in Indexes :
           /\ OnlyEachOther(i, j)
           /\ results[i + 1].score = results[j + 1].score
           /\ Cardinality({i, j} \cap Survivors) = 1

\* C23: when the scores are pairwise distinct, the regions get_list_of_regions
\* returns are those of the global greedy suppression (descending score, keep a
\* region iff it overlaps no region already kept), whatever the order of the
\* list and the iteration order of the index sets.
C23_EqualsGlobalGreedy ==
    pc = "done" /\ DistinctScores(results) =>
        /\ Survivors = GreedyKept(results)
        /\ Range(new_regions) = { results[i + 1] : i \in GreedyKept(results) }

----------------------------------------------------------------------------
(* Properties of the drivers and of main *)

\* positions of the entries of the trace for a call, its outcome and its page
Entries(call, ok, p) ==
    { k \in 1..Len(trace) :
        trace[k].call = call /\ trace[k].ok = ok /\ trace[k].page = p }

\* an acquisition and the release of what it obtains
ResourceCalls ==
    { <<"AcquirePage", "Page.Release">>, <<"AcquirePageView", "PageView.Release">> }

\* the driver is between the acquisition of a page and the end of its release
InPage ==
    main_pc \in {"acquire_view", "render", "detect", "process_page", "release_view",
                 "release_page"}

\* C24: in both drivers a page and a page view that were acquired are released
\* exactly once, before the next page is acquired and before process_file
\* returns or raises, whether rendering, detection and template building
\* succeed or raise; a failed acquisition raises and releases nothing for the
\* resource that was not obtained.
C24_ReleasedExactlyOnce ==
    command \in {"tag", "template"} =>
        \A pair \in ResourceCalls, p \in 0..num_pages :
            LET acq == Entries(pair[1], TRUE, p)
                failed == Entries(pair[1], FALSE, p)
                rel == Entries(pair[2], TRUE, p)
            IN  /\ Cardinality(acq) <= 1
                /\ Cardinality(rel) <= 1
                /\ \A r \in rel : \E a \in acq : a < r
                /\ \A k \in 1..Len(trace) :
                       (trace[k].call = "AcquirePage" /\ \E a \in acq : a < k)
                           => \E r \in rel : r < k
                /\ ~ InPage => Cardinality(rel) = Cardinality(acq)
                /\ failed # {} => acq = {} /\ rel = {} /\ exc = FailException(command)

\* template building raised on the second page of a run of create_template:
\* both pages and both views were released and the exception left process_file
C24_Witness ==
    /\ command = "template"
    /\ main_pc = "except"
    /\ exc = "Exception"
    /\ Entries("process_page", FALSE, 1) # {}
    /\ Entries("process_page", TRUE, 0) # {}
    /\ Entries("PageView.Release", TRUE, 1) # {}
    /\ Entries("Page.Release", TRUE, 1) # {}

\* positions of the entries of the trace for a call
At(call) == { k \in 1..Len(trace) : trace[k].call = call }

\* the calls made for one page
PageCalls ==
    {"AcquirePage", "AcquirePageView", "render_page", "ai.process_page", "process_page",
     "PageView.Release", "Page.Release"}

\* the steps after the pages, in the order of the claim
AutotagOrder ==
    <<"RemoveTags", "RemoveStructTree", "MemStream.Write", "LoadFromStream",
      "MemStream.Destroy", "AddTags", "Save">>

\* the memory stream exists and its finally clause has not run to its end
InStream == main_pc \in {"write_stream", "load_template", "destroy_stream"}

\* C25: in autotag process_file the pages 1..n are processed in ascending
\* order, then RemoveTags, RemoveStructTree, the write of the template to the
\* memory stream and its load, the destruction of the stream, AddTags and Save
\* follow in this order; Save is invoked only if every earlier step succeeded,
\* a failing step raises and no Save follows it, and a created memory stream is
\* destroyed exactly once, on the success and on the failure path.
C25_AutotagOrder ==
    command = "tag" =>
        /\ \A k \in 1..Len(calls) : calls[k].page_number = k
        /\ \A k \in At("AcquirePage") :
               trace[k].page = Cardinality({ j \in At("AcquirePage") : j < k })
        /\ \A i \in 1..Len(AutotagOrder) :
               /\ Cardinality(At(AutotagOrder[i])) <= 1
               /\ \A k \in At(AutotagOrder[i]) :
                      /\ \A j \in 1..Len(trace) : trace[j].call \in PageCalls => j < k
                      /\ Len(calls) = num_pages
                      /\ \A p \in 0..(num_pages - 1) : Entries("Page.Release", TRUE, p) # {}
                      /\ \A i2 \in (i + 1)..Len(AutotagOrder) :
                             \A k2 \in At(AutotagOrder[i2]) : k < k2
                      /\ IF AutotagOrder[i] = "MemStream.Destroy"
                         THEN \E j \in At("MemStream.Write") : j < k
                         ELSE /\ i > 1 => \E j \in At(AutotagOrder[i - 1]) : j < k
                              /\ \A j \in 1..(k - 1) : trace[j].ok
        /\ \A j \in 1..Len(trace) :
               ~ trace[j].ok => exc # "none" /\ \A k \in At("Save") : k <= j
        /\ LET created == { k \in At("CreateMemStream") : trace[k].ok }
               destroyed == At("MemStream.Destroy")
           IN  /\ Cardinality(destroyed) <= 1
               /\ \A d \in destroyed : \E c \in created : c < d
               /\ ~ InStream => Cardinality(destroyed) = Cardinality(created)

\* a document of two pages was tagged and saved
C25_Witness ==
    /\ command = "tag"
    /\ main_pc = "return"
    /\ num_pages = 2
    /\ Len(calls) = 2
    /\ \E k \in At("Save") : trace[k].ok /\ k = Len(trace)
    /\ At("MemStream.Destroy") # {}

\* <= on floats
FloatLeq(a, b) == ~ a.nan /\ ~ b.nan /\ a.value <= b.value

\* 1.0 <= zoom <= 10.0
ZoomInRange == FloatLeq(Zoom(100), zoom) /\ FloatLeq(zoom, Zoom(1000))

\* the extensions the subcommand asks for, without regard to case
ExtensionsMatch ==
    /\ EndsWith(Lower(input_path), DotPdf)
    /\ EndsWith(Lower(output_path), OutputSuffix(command))

\* the worker was constructed and process_file called
ProcessingStarted == main_pc = "process_file" \/ trace # <<>>

\* the subcommand function has been left, with or without processing
Validated == main_pc \notin {"start_thread", "subcommand"}

\* C26: autotagging_pdf and create_template_json start processing only when
\* 1.0 <= zoom <= 10.0 and the input path ends in .pdf and the output path in
\* .pdf (tag) or .json (template), without regard to case; otherwise they raise
\* without processing anything, and a zoom out of the range raises
\* ArgumentZoomException whatever the extensions are.
C26_ProcessingOnlyWhenValid ==
    command \in {"tag", "template"} =>
        /\ ProcessingStarted => ZoomInRange /\ ExtensionsMatch
        /\ (Validated /\ ~ (ZoomInRange /\ ExtensionsMatch))
               => trace = <<>> /\ exc # "none"
        /\ (Validated /\ ~ ZoomInRange) => exc = "ArgumentZoomException"

\* the process is at its end or past it
Exiting == main_pc \in {"exit", "exited"}

\* C27: once main has started the update-check thread, the thread is joined
\* before the process exits on every path: after a normal return of the
\* subcommand, after an ExpectedException (exit with its error code) and after
\* any other exception (exit code 1); the subcommand does not wait for the
\* update check before it runs.
C27_JoinedBeforeExit ==
    /\ Exiting => joined /\ update_thread = "finished"
    /\ Exiting =>
           \/ exc = "none" /\ exit_code = "0"
           \/ exc \notin BuiltinExceptions \cup {"none"} /\ exit_code \in {"error_code", "1"}
           \/ exc \in BuiltinExceptions /\ exit_code = "1"
    /\ main_pc = "subcommand" =>
           /\ update_thread \in {"running", "finished"}
           /\ ENABLED (RunConfigSubcommand \/ ValidateArguments)
    /\ (main_pc \notin {"start_thread", "subcommand", "finally"} /\ ~ Exiting)
           => update_thread \in {"running", "finished"} /\ ~ joined

\* the subcommand raised one of the program's exceptions and the process left
\* with the error code after the join
C27_Witness ==
    /\ main_pc = "exited"
    /\ joined
    /\ exc = "ArgumentZoomException"
    /\ exit_code = "error_code"

====
